---------------------------- MODULE Spec2Model ----------------------------
(***************************************************************************)
(* The register-machine interpreter of rusty-bustacean (src/main.rs):      *)
(* struct VM, VM::new, VM::run, VM::exec_inst, VM::get_reg, VM::set_reg.   *)
(*                                                                         *)
(* A machine word is a Rust usize.  The model keeps the word a fixed-width *)
(* unsigned integer of WordBits bits; every arithmetic step is taken       *)
(* modulo 2^WordBits, or panics, exactly where the Rust operator does.     *)
(* Rust's `+ - *` and `<< >>` panic on overflow when the build has         *)
(* overflow checks (the dev profile) and wrap / mask when it has not (the  *)
(* release profile); the repository fixes no profile, so the build is a    *)
(* choice made in Init (overflow_checks).  Indexing an array or a Vec out  *)
(* of bounds, dividing by zero and unwrapping None panic in every build.   *)
(* A panic ends the process: it is the machine's fault state.              *)
(***************************************************************************)
EXTENDS Integers, Sequences, FiniteSets, TLC

\* width of a machine word in bits (usize::BITS, scaled down)
WordBits == 10
WordMod == 2 ^ WordBits
WordMax == WordMod - 1

\* stack: [usize; 0xff]
StackCap == 255

\* the carriage-return byte Inp discards
CR == 13

VARIABLES
    vm,               \* struct VM without its code: a, b, c, d, ip, sp, is_halted, stack
    code,             \* VM.code: the program, a sequence of VMOp (address i is code[i+1])
    pc,               \* "new" (constructed), "running" (inside run), "done" (run returned), "panicked"
    panic,            \* the panic that ended the process, "none" while there is none
    overflow_checks,  \* the build: TRUE when integer overflow panics, FALSE when it wraps
    stdin,            \* the bytes of standard input not yet read
    output,           \* the bytes printed so far
    hist,             \* the last two loop iterations: the instruction, what machine, calls, stdin and output were before it, the number of bytes it read
    calls,            \* the return addresses pushed by Call that are still on the stack
    iter              \* the number of iterations run's loop has completed, modulo 2

vars == <<vm, code, pc, panic, overflow_checks, stdin, output, hist, calls, iter>>

----------------------------------------------------------------------------
\* enum VMReg
VMReg == {"A", "B", "C", "D", "IP", "SP"}

\* enum VMOp: every instruction is a record of the same shape; the fields an
\* opcode does not have hold "A" and 0.
Inst(op, l, r, imm) == [op |-> op, l |-> l, r |-> r, imm |-> imm]
PushI(imm) == Inst("PushI", "A", "A", imm)
PushR(reg) == Inst("PushR", reg, "A", 0)
Pop(reg) == Inst("Pop", reg, "A", 0)
Add(l, r) == Inst("Add", l, r, 0)
Sub(l, r) == Inst("Sub", l, r, 0)
Mul(l, r) == Inst("Mul", l, r, 0)
Div(l, r) == Inst("Div", l, r, 0)
Xor(l, r) == Inst("Xor", l, r, 0)
And(l, r) == Inst("And", l, r, 0)
Or(l, r) == Inst("Or", l, r, 0)
Shl(l, r) == Inst("Shl", l, r, 0)
Shr(l, r) == Inst("Shr", l, r, 0)
Inp(reg) == Inst("Inp", reg, "A", 0)
Eq(l, r) == Inst("Eq", l, r, 0)
Gt(l, r) == Inst("Gt", l, r, 0)
Lt(l, r) == Inst("Lt", l, r, 0)
Jmp(addr) == Inst("Jmp", "A", "A", addr)
JmpRel(off) == Inst("JmpRel", "A", "A", off)
Call(addr) == Inst("Call", "A", "A", addr)
Ret == Inst("Ret", "A", "A", 0)
PrintR(reg) == Inst("Print", reg, "A", 0)
Halt == Inst("Halt", "A", "A", 0)

BinOps == {"Add", "Sub", "Mul", "Div", "Xor", "And", "Or", "Shl", "Shr"}
CmpOps == {"Eq", "Gt", "Lt"}

----------------------------------------------------------------------------
\* a constructor that leaves is_halted false
new_running == [a |-> 0, b |-> 0, c |-> 0, d |-> 0, ip |-> 0, sp |-> 0,
                is_halted |-> FALSE, stack |-> [i \in 0 .. StackCap - 1 |-> 0]]

\* VM::new: registers and stack zero, is_halted true
new == [a |-> 0, b |-> 0, c |-> 0, d |-> 0, ip |-> 0, sp |-> 0,
        is_halted |-> TRUE, stack |-> [i \in 0 .. StackCap - 1 |-> 0]]

\* VM::get_reg
get_reg(m, reg) ==
    CASE reg = "A" -> m.a
      [] reg = "B" -> m.b
      [] reg = "C" -> m.c
      [] reg = "D" -> m.d
      [] reg = "IP" -> m.ip
      [] reg = "SP" -> m.sp

\* VM::set_reg
set_reg(m, reg, val) ==
    CASE reg = "A" -> [m EXCEPT !.a = val]
      [] reg = "B" -> [m EXCEPT !.b = val]
      [] reg = "C" -> [m EXCEPT !.c = val]
      [] reg = "D" -> [m EXCEPT !.d = val]
      [] reg = "IP" -> [m EXCEPT !.ip = val]
      [] reg = "SP" -> [m EXCEPT !.sp = val]

----------------------------------------------------------------------------
\* The outcome of a computation on usize: a value, or the panic it raised.
Val(v) == [panic |-> "none", val |-> v]
PanicVal(msg) == [panic |-> msg, val |-> 0]

\* usize `+`
usize_add(x, y) ==
    IF x + y <= WordMax THEN Val(x + y)
    ELSE IF overflow_checks THEN PanicVal("attempt to add with overflow")
    ELSE Val((x + y) % WordMod)

\* usize `-`
usize_sub(x, y) ==
    IF x >= y THEN Val(x - y)
    ELSE IF overflow_checks THEN PanicVal("attempt to subtract with overflow")
    ELSE Val((x - y + WordMod) % WordMod)

\* usize `*`
usize_mul(x, y) ==
    IF x * y <= WordMax THEN Val(x * y)
    ELSE IF overflow_checks THEN PanicVal("attempt to multiply with overflow")
    ELSE Val((x * y) % WordMod)

\* usize `/` as a division that yields 0 for a zero divisor
usize_div_total(x, y) == IF y = 0 THEN Val(0) ELSE Val(x \div y)

\* usize `/`
usize_div(x, y) ==
    IF y = 0 THEN PanicVal("attempt to divide by zero") ELSE Val(x \div y)

\* bit i of x
Bit(x, i) == (x \div (2 ^ i)) % 2

\* a bitwise operator from its truth table on one bit: tt[<<p, q>>]
Bitwise(x, y, tt) ==
    LET RECURSIVE go(_)
        go(i) == IF i = WordBits THEN 0
                 ELSE tt[<<Bit(x, i), Bit(y, i)>>] * (2 ^ i) + go(i + 1)
    IN go(0)

\* usize `^`
usize_xor(x, y) == Val(Bitwise(x, y, [p \in {0, 1} \X {0, 1} |-> (p[1] + p[2]) % 2]))
\* usize `&`
usize_and(x, y) == Val(Bitwise(x, y, [p \in {0, 1} \X {0, 1} |-> p[1] * p[2]]))
\* usize `|`
usize_or(x, y) == Val(Bitwise(x, y, [p \in {0, 1} \X {0, 1} |-> IF p[1] + p[2] > 0 THEN 1 ELSE 0]))

\* usize `<<`: a shift amount of the word's width or more panics with overflow
\* checks and is taken modulo the width without them; bits shifted out are lost.
usize_shl(x, y) ==
    IF y < WordBits THEN Val((x * (2 ^ y)) % WordMod)
    ELSE IF overflow_checks THEN PanicVal("attempt to shift left with overflow")
    ELSE Val((x * (2 ^ (y % WordBits))) % WordMod)

\* usize `>>`
usize_shr(x, y) ==
    IF y < WordBits THEN Val(x \div (2 ^ y))
    ELSE IF overflow_checks THEN PanicVal("attempt to shift right with overflow")
    ELSE Val(x \div (2 ^ (y % WordBits)))

\* the operator a binary instruction applies (exec_inst, the Add .. Shr arms)
binop(op, x, y) ==
    CASE op = "Add" -> usize_add(x, y)
      [] op = "Sub" -> usize_sub(x, y)
      [] op = "Mul" -> usize_mul(x, y)
      [] op = "Div" -> usize_div(x, y)
      [] op = "Xor" -> usize_xor(x, y)
      [] op = "And" -> usize_and(x, y)
      [] op = "Or" -> usize_or(x, y)
      [] op = "Shl" -> usize_shl(x, y)
      [] op = "Shr" -> usize_shr(x, y)

----------------------------------------------------------------------------
\* What exec_inst leaves behind: the machine, the panic that cut it short (or
\* "none"), the number of bytes it read from stdin, the bytes it printed.
Ok(m) == [vm |-> m, panic |-> "none", nread |-> 0, out |-> <<>>]
Fail(m, msg) == [vm |-> m, panic |-> msg, nread |-> 0, out |-> <<>>]

StackIndexPanic == "stack index out of bounds"
CodeIndexPanic == "code index out of bounds"
UnwrapPanic == "called Option::unwrap() on a None value"

\* PushI without the bounds check of the array index
exec_PushI_unchecked(m, imm) ==
    LET m1 == IF m.sp < StackCap THEN [m EXCEPT !.stack[m.sp] = imm] ELSE m
        s == usize_add(m1.sp, 1)
    IN IF s.panic # "none" THEN Fail(m1, s.panic)
       ELSE Ok([m1 EXCEPT !.sp = s.val])

\* PushI(imm) => { self.stack[self.sp] = *imm; self.sp += 1; }
exec_PushI(m, imm) ==
    IF m.sp >= StackCap THEN Fail(m, StackIndexPanic)
    ELSE LET m1 == [m EXCEPT !.stack[m.sp] = imm]
             s == usize_add(m1.sp, 1)
         IN IF s.panic # "none" THEN Fail(m1, s.panic)
            ELSE Ok([m1 EXCEPT !.sp = s.val])

\* PushR(reg) => { self.exec_inst(&VMOp::PushI(self.get_reg(reg))) }
exec_PushR(m, reg) == exec_PushI(m, get_reg(m, reg))

\* Pop with the index reduced into the array instead of checked
exec_Pop_unchecked(m, reg) ==
    LET s == usize_sub(m.sp, 1)
    IN IF s.panic # "none" THEN Fail(m, s.panic)
       ELSE LET m1 == [m EXCEPT !.sp = s.val]
            IN Ok(set_reg(m1, reg, m1.stack[m1.sp % StackCap]))

\* Pop that reads the slot at SP before it decrements SP
exec_Pop_read_first(m, reg) ==
    IF m.sp >= StackCap THEN Fail(m, StackIndexPanic)
    ELSE LET s == usize_sub(m.sp, 1)
         IN IF s.panic # "none" THEN Fail(m, s.panic)
            ELSE Ok(set_reg([m EXCEPT !.sp = s.val], reg, m.stack[m.sp]))

\* Pop(reg) => { self.sp -= 1; self.set_reg(reg, self.stack[self.sp]); }
exec_Pop(m, reg) ==
    LET s == usize_sub(m.sp, 1)
    IN IF s.panic # "none" THEN Fail(m, s.panic)
       ELSE LET m1 == [m EXCEPT !.sp = s.val]
            IN IF m1.sp >= StackCap THEN Fail(m1, StackIndexPanic)
               ELSE Ok(set_reg(m1, reg, m1.stack[m1.sp]))

\* a binary operation that stores its result in the right register
exec_BinOp_into_right(m, op, left, right) ==
    LET v == binop(op, get_reg(m, left), get_reg(m, right))
    IN IF v.panic # "none" THEN Fail(m, v.panic)
       ELSE Ok(set_reg(m, right, v.val))

\* Add .. Shr(left, right) => { self.set_reg(left, self.get_reg(left) <op> self.get_reg(right)) }
exec_BinOp(m, op, left, right) ==
    LET v == binop(op, get_reg(m, left), get_reg(m, right))
    IN IF v.panic # "none" THEN Fail(m, v.panic)
       ELSE Ok(set_reg(m, left, v.val))

\* Inp that stores the byte it reads, a carriage return included
exec_Inp_keeps_cr(m, reg, in) ==
    IF in = <<>> THEN Fail(m, UnwrapPanic)
    ELSE [Ok(set_reg(m, reg, Head(in))) EXCEPT !.nread = 1]

\* Inp that stores 0 when the stream has ended
RECURSIVE exec_Inp_sentinel(_, _, _)
exec_Inp_sentinel(m, reg, in) ==
    IF in = <<>> THEN Ok(set_reg(m, reg, 0))
    ELSE IF Head(in) = CR
         THEN [exec_Inp_sentinel(m, reg, Tail(in)) EXCEPT !.nread = @ + 1]
         ELSE [Ok(set_reg(m, reg, Head(in))) EXCEPT !.nread = 1]

\* Inp(reg): read one byte and unwrap it; on 0xd execute Inp(reg) again,
\* otherwise set_reg(reg, byte).  in is what stdin still holds.
RECURSIVE exec_Inp(_, _, _)
exec_Inp(m, reg, in) ==
    IF in = <<>> THEN Fail(m, UnwrapPanic)
    ELSE IF Head(in) = CR
         THEN [exec_Inp(m, reg, Tail(in)) EXCEPT !.nread = @ + 1]
         ELSE [Ok(set_reg(m, reg, Head(in))) EXCEPT !.nread = 1]

\* the relation a comparison tests
relation(op, x, y) ==
    CASE op = "Eq" -> x = y
      [] op = "Gt" -> x > y
      [] op = "Lt" -> x < y

\* a comparison that skips when its relation holds
exec_Cmp_inverted(m, op, left, right) ==
    IF ~relation(op, get_reg(m, left), get_reg(m, right)) THEN Ok(m)
    ELSE LET s == usize_add(m.ip, 1)
         IN IF s.panic # "none" THEN Fail(m, s.panic)
            ELSE Ok([m EXCEPT !.ip = s.val])

\* Eq(left, right) => { if self.get_reg(left) != self.get_reg(right) {self.ip += 1} }
\* Gt: if <=, Lt: if >=
exec_Cmp(m, op, left, right) ==
    IF relation(op, get_reg(m, left), get_reg(m, right)) THEN Ok(m)
    ELSE LET s == usize_add(m.ip, 1)
         IN IF s.panic # "none" THEN Fail(m, s.panic)
            ELSE Ok([m EXCEPT !.ip = s.val])

\* Jmp that sets ip to the address itself
exec_Jmp_exact(m, addr) == Ok([m EXCEPT !.ip = addr])

\* Jmp(addr) => { self.ip = addr - 1 }
exec_Jmp(m, addr) ==
    LET s == usize_sub(addr, 1)
    IN IF s.panic # "none" THEN Fail(m, s.panic)
       ELSE Ok([m EXCEPT !.ip = s.val])

\* JmpRel(off) => { self.ip += off - 1 }
exec_JmpRel(m, off) ==
    LET s == usize_sub(off, 1)
    IN IF s.panic # "none" THEN Fail(m, s.panic)
       ELSE LET t == usize_add(m.ip, s.val)
            IN IF t.panic # "none" THEN Fail(m, t.panic)
               ELSE Ok([m EXCEPT !.ip = t.val])

\* Call(addr) => { self.exec_inst(&VMOp::PushI(self.ip + 1)); self.exec_inst(&VMOp::Jmp(*addr)); }
exec_Call(m, addr) ==
    LET s == usize_add(m.ip, 1)
    IN IF s.panic # "none" THEN Fail(m, s.panic)
       ELSE LET p == exec_PushI(m, s.val)
            IN IF p.panic # "none" THEN p
               ELSE exec_Jmp(p.vm, addr)

\* Ret => { self.sp -= 1; self.ip = self.stack[self.sp]; }
exec_Ret(m) ==
    LET s == usize_sub(m.sp, 1)
    IN IF s.panic # "none" THEN Fail(m, s.panic)
       ELSE LET m1 == [m EXCEPT !.sp = s.val]
            IN IF m1.sp >= StackCap THEN Fail(m1, StackIndexPanic)
               ELSE Ok([m1 EXCEPT !.ip = m1.stack[m1.sp]])

\* Print that writes the value's last decimal digit as a character
exec_Print_decimal(m, reg) == [Ok(m) EXCEPT !.out = <<48 + (get_reg(m, reg) % 10)>>]

\* Print(reg) => { print!("{}", self.get_reg(reg) as u8 as char) }
exec_Print(m, reg) == [Ok(m) EXCEPT !.out = <<get_reg(m, reg) % 256>>]

\* Halt => self.is_halted = true
exec_Halt(m) == Ok([m EXCEPT !.is_halted = TRUE])

\* VM::exec_inst
exec_inst(m, inst, in) ==
    CASE inst.op = "PushI" -> exec_PushI(m, inst.imm)
      [] inst.op = "PushR" -> exec_PushR(m, inst.l)
      [] inst.op = "Pop" -> exec_Pop(m, inst.l)
      [] inst.op \in BinOps -> exec_BinOp(m, inst.op, inst.l, inst.r)
      [] inst.op = "Inp" -> exec_Inp(m, inst.l, in)
      [] inst.op \in CmpOps -> exec_Cmp(m, inst.op, inst.l, inst.r)
      [] inst.op = "Jmp" -> exec_Jmp(m, inst.imm)
      [] inst.op = "JmpRel" -> exec_JmpRel(m, inst.imm)
      [] inst.op = "Call" -> exec_Call(m, inst.imm)
      [] inst.op = "Ret" -> exec_Ret(m)
      [] inst.op = "Print" -> exec_Print(m, inst.l)
      [] inst.op = "Halt" -> exec_Halt(m)

\* the body of run's loop after the fetch: self.exec_inst(&inst); self.ip += 1;
loop_body(m, inst, in) ==
    LET r == exec_inst(m, inst, in)
    IN IF r.panic # "none" THEN r
       ELSE LET s == usize_add(r.vm.ip, 1)
            IN IF s.panic # "none" THEN [r EXCEPT !.panic = s.panic]
               ELSE [r EXCEPT !.vm.ip = s.val]

----------------------------------------------------------------------------
\* The programs the machine is constructed with (VM::new(code)) and the input
\* streams it is run on.

\* deepest nesting of calls in the call-chain programs
MaxCallDepth == 2

\* immediates: zero, small, just past the stack's capacity, the largest word
Imms == {0, 1, StackCap + 1, WordMax}
\* values loaded into the operand registers before the instruction under study
Loads == {0, 2, WordMax}
\* values loaded into SP: empty, one below full, full, past the end
SpLoads == {0, StackCap - 1, StackCap, StackCap + 1}
\* relative offsets: 0, forward, and WordMax (one back, by wrap-around)
Offs == {0, 1, 2, 3, WordMax}

\* every instruction, with operands over all six registers, immediates in Imms,
\* absolute targets in addrs and offsets in Offs
AllInst(addrs) ==
    {PushI(v) : v \in Imms}
    \cup {PushR(r) : r \in VMReg}
    \cup {Pop(r) : r \in VMReg}
    \cup {Inst(op, l, r, 0) : op \in BinOps \cup CmpOps, l \in VMReg, r \in VMReg}
    \cup {Inp(r) : r \in VMReg}
    \cup {Jmp(t) : t \in addrs}
    \cup {JmpRel(o) : o \in Offs}
    \cup {Call(t) : t \in addrs}
    \cup {Ret, Halt}
    \cup {PrintR(r) : r \in VMReg}

GP == {"A", "B", "C", "D"}

\* one instruction run from the constructed machine, with nothing after it
SingleProgs == {<<i>> : i \in AllInst(0 .. 2)}

\* an instruction i at address 4, after its operand registers were loaded with
\* x and y, and followed by two instructions and a Halt
Loaded(x, y, i) ==
    <<PushI(x), Pop(IF i.l \in GP THEN i.l ELSE "A"),
      PushI(y), Pop(IF i.r \in GP THEN i.r ELSE "B"),
      i, Or("C", "A"), Xor("D", "B"), Halt>>

LoadedProgs == {Loaded(x, y, i) : x \in Loads, y \in Loads, i \in AllInst(0 .. 8)}

\* the instructions that use the stack or name SP
StackInst(addrs) ==
    {i \in AllInst(addrs) :
        \/ i.op \in {"PushI", "PushR", "Pop", "Call", "Ret"}
        \/ i.op \in BinOps \cup CmpOps \cup {"Inp", "Print"} /\ "SP" \in {i.l, i.r}}

\* an instruction i at address 4, after A was loaded with x and SP with z
StackProgs ==
    {<<PushI(x), Pop("A"), PushI(z), Pop("SP"), i, Or("C", "A"), Halt>> :
        x \in Loads, z \in SpLoads, i \in StackInst(0 .. 7)}

\* the pair PushI(v); Pop(r) at addresses 4 and 5, after A was loaded with x and
\* SP with z
PairProgs ==
    {<<PushI(x), Pop("A"), PushI(z), Pop("SP"), PushI(v), Pop(r), Or("C", "A"), Halt>> :
        x \in Loads, z \in SpLoads, v \in Imms, r \in VMReg}

\* calls nested n deep: address 0 calls the subroutine at 3, the subroutine at
\* 3k calls the one at 3(k+1), the innermost one computes; each ends in Ret
RECURSIVE Subs(_, _)
Subs(k, n) ==
    IF k > n THEN <<>>
    ELSE <<(IF k < n THEN Call(3 * (k + 1)) ELSE Or("C", "A")), Xor("D", "B"), Ret>>
         \o Subs(k + 1, n)

CallProgs == {<<Call(3), Halt, Halt>> \o Subs(1, n) : n \in 1 .. MaxCallDepth}

\* [PushI(0), Pop(B), Div(A,B), Halt]
DivZeroProg == <<PushI(0), Pop("B"), Div("A", "B"), Halt>>

\* [PushI(5), PushI(3), Pop(B), Pop(A), Sub(A,B), Print(A), Halt]
SubProg == <<PushI(5), PushI(3), Pop("B"), Pop("A"), Sub("A", "B"), PrintR("A"), Halt>>

\* a literal of the source given by its base-65536 digits, most significant
\* first, as a word of the machine
RECURSIVE LiteralFrom(_, _)
LiteralFrom(acc, ds) ==
    IF ds = <<>> THEN acc
    ELSE LiteralFrom((acc * (65536 % WordMod) + Head(ds)) % WordMod, Tail(ds))
Literal(ds) == LiteralFrom(0, ds)

\* main: the program handed to VM::new, addresses 0 .. 211
MainProg ==
    <<
       PushI(8), Pop("A"), Inp("B"), Or("C", "B"), Shl("C", "A"), Inp("B"),
       Or("C", "B"), Shl("C", "A"), Inp("B"), Or("C", "B"), Shl("C", "A"),
       Inp("B"), Or("C", "B"), PushI(Literal(<<43605, 4919>>)), Pop("D"),
       Xor("C", "D"), PushI(Literal(<<52281, 29264>>)), Pop("A"),
       Eq("A", "C"), Jmp(33), PushI(76), Pop("A"), PrintR("A"), PushI(111),
       Pop("A"), PrintR("A"), PushI(115), Pop("A"), PrintR("A"), PushI(101),
       Pop("A"), PrintR("A"), Halt, PushI(Literal(<<17476>>)), Pop("A"),
       PushI(Literal(<<14169>>)), Pop("B"), PushI(7), Pop("B"),
       Mul("A", "B"), Or("A", "B"), PushI(3), Pop("B"), Shr("A", "B"),
       Inp("B"), PushI(8), Pop("C"), Shl("B", "C"), Inp("D"), Or("B", "D"),
       PushI(Literal(<<16588>>)), Pop("C"), Xor("B", "C"), Eq("A", "B"),
       JmpRel(2), Jmp(20), PushI(8), Pop("A"), PushI(0), Inp("B"),
       Pop("C"), Or("C", "B"), Shl("C", "A"), Inp("B"), Or("C", "B"),
       Shl("C", "A"), Inp("B"), Or("C", "B"), Shl("C", "A"), Inp("B"),
       Or("C", "B"), Shl("C", "A"), Inp("B"), Or("C", "B"), Shl("C", "A"),
       Inp("B"), Or("C", "B"), PushR("C"), Pop("D"),
       PushI(Literal(<<86, 4677>>)), Pop("B"), Mul("B", "IP"), Shl("B", "A"),
       Or("B", "A"), Xor("B", "IP"), PushI(Literal(<<563>>)), Pop("A"),
       Mul("B", "A"), Sub("C", "B"), Xor("C", "D"),
       PushI(Literal(<<13636>>)), PushI(Literal(<<1, 18270, 44997>>)),
       Pop("A"), Pop("B"), Mul("A", "B"), Eq("A", "C"), JmpRel(2), Jmp(20),
       Add("C", "D"), Mul("C", "B"), PushR("C"), Pop("D"), PushI(8),
       Pop("A"), PushI(0), Inp("B"), Pop("C"), Or("C", "B"), Shl("C", "A"),
       Inp("B"), Or("C", "B"), Shl("C", "A"), Inp("B"), Or("C", "B"),
       Shl("C", "A"), Inp("B"), Or("C", "B"), Shl("C", "A"), Inp("B"),
       Or("C", "B"), Shl("C", "A"), Inp("B"), Or("C", "B"), Shl("C", "A"),
       Inp("B"), Or("C", "B"), Shl("C", "A"), Inp("B"), Or("C", "B"),
       Xor("D", "C"), PushR("D"), PushI(Literal(<<60893, 17030, 29911>>)),
       Pop("B"), PushR("B"), Pop("D"), PushI(Literal(<<20803>>)), Pop("A"),
       PushI(1), Pop("C"), Eq("A", "C"), Jmp(148), Add("B", "D"), PushR("A"),
       PushI(1), Pop("A"), Add("C", "A"), Pop("A"), Jmp(139), Pop("D"),
       Eq("B", "D"), JmpRel(2), Jmp(20), PushI(8), Pop("A"), PushI(0),
       Inp("B"), Pop("C"), Or("C", "B"), Shl("C", "A"), Inp("B"),
       Or("C", "B"), Shl("C", "A"), Inp("B"), Or("C", "B"), Shl("C", "A"),
       Inp("B"), Or("C", "B"), Shl("C", "A"), Inp("B"), Or("C", "B"),
       PushI(Literal(<<127, 65535, 65535>>)), Pop("D"), And("C", "D"),
       Add("D", "C"), PushI(Literal(<<242, 25966, 25444>>)), Pop("B"),
       Eq("B", "D"), JmpRel(2), Jmp(20), PushI(0), Pop("C"), Inp("B"),
       Xor("C", "B"), Inp("B"), Eq("C", "B"), JmpRel(2), Jmp(20), Inp("C"),
       Eq("C", "B"), JmpRel(2), Jmp(20), PushI(46), Inp("A"), PushI(8),
       Pop("D"), Shl("A", "D"), Add("A", "C"), PushI(Literal(<<32046>>)),
       Pop("B"), Eq("A", "B"), JmpRel(2), Jmp(20), PushI(87), Pop("A"),
       PrintR("A"), PushI(105), Pop("A"), PrintR("A"), PushI(110), Pop("A"),
       PrintR("A"), Halt
    >>

Programs ==
    {<<>>, DivZeroProg, SubProg, MainProg} \cup SingleProgs \cup LoadedProgs
    \cup StackProgs \cup PairProgs \cup CallProgs

\* input streams: empty, a byte, carriage returns alone, carriage returns
\* before a byte, bytes after the first one, the byte below a carriage return
Streams == {<<>>, <<65>>, <<CR>>, <<CR, 65>>, <<CR, CR, 10, 66>>, <<255, CR>>, <<CR - 1>>}

\* input streams for MainProg: one that passes every check of the machine with
\* 10-bit words, one that fails at each check, and streams that end early or
\* hold carriage returns
MainStreams ==
    {<<97, 97, 65, 103, 64, 247, 97, 97, 97, 97, 65, 84, 97, 97, 97,
         97, 97, 97, 67, 229, 97, 97, 97, 67, 101, 46, 46, 46, 125>>,
     <<97, 97, 64, 0>>,
     <<97, 97, 65, 103, 64, 0>>,
     <<97, 97, 65, 103, 64, 247, 97, 97, 97, 97, 64, 0>>,
     <<97, 97, 65, 103, 64, 247, 97, 97, 97, 97, 65, 84, 97, 97, 97,
         97, 97, 97, 64, 0>>,
     <<97, 97, 65, 103, 64, 247, 97, 97, 97, 97, 65, 84, 97, 97, 97,
         97, 97, 97, 67, 229, 97, 97, 97, 64, 0>>,
     <<97, 97, 65, 103, 64, 247, 97, 97, 97, 97, 65, 84, 97, 97, 97,
         97, 97, 97, 67, 229, 97, 97, 97, 67, 101, 46, 47>>,
     <<97, 97, 65, 103, 64, 247, 97, 97, 97, 97, 65, 84, 97, 97, 97,
         97, 97, 97, 67, 229, 97, 97, 97, 67, 101, 46, 46, 47>>,
     <<97, 97, 65, 103, 64, 247, 97, 97, 97, 97, 65, 84, 97, 97, 97,
         97, 97, 97, 67, 229, 97, 97, 97, 67, 101, 46, 46, 46, 124>>,
     <<>>,
     <<97, 97, 65, 103, 64, 247, 97, 97, 97>>,
     <<CR, 97, 97, CR, CR, 65, 103, 64, CR, 0>>,
     <<97, 97, 64, 0, 66, CR>>}

ReadsInput(prog) == \E i \in 1 .. Len(prog) : prog[i].op = "Inp"

----------------------------------------------------------------------------
\* let mut vm = VM::new(code): the machine as constructed, before vm.run()
InitWith(progs) ==
    /\ code \in progs
    /\ vm = new
    /\ pc = "new"
    /\ panic = "none"
    /\ overflow_checks \in BOOLEAN
    /\ stdin \in (IF code = MainProg THEN MainStreams
                  ELSE IF ReadsInput(code) THEN Streams ELSE {<<>>})
    /\ output = <<>>
    /\ hist = <<>>
    /\ calls = <<>>
    /\ iter = 0

Init == InitWith(Programs)

\* run: self.is_halted = false
Run ==
    /\ pc = "new"
    /\ vm' = [vm EXCEPT !.is_halted = FALSE]
    /\ pc' = "running"
    /\ UNCHANGED <<code, panic, overflow_checks, stdin, output, hist, calls, iter>>

\* a fetch past the end that ends the run as a Halt would
FetchFault_halts ==
    /\ pc = "running"
    /\ vm.ip >= Len(code)
    /\ vm' = [vm EXCEPT !.is_halted = TRUE]
    /\ pc' = "done"
    /\ UNCHANGED <<code, panic, overflow_checks, stdin, output, hist, calls, iter>>

\* a fetch past the end that finds no instruction and goes round the loop again
FetchFault_spins ==
    /\ pc = "running"
    /\ vm.ip >= Len(code)
    /\ UNCHANGED vars

\* let inst = self.code[self.ip] with ip past the end of the Vec
FetchFault ==
    /\ pc = "running"
    /\ vm.ip >= Len(code)
    /\ pc' = "panicked"
    /\ panic' = CodeIndexPanic
    /\ UNCHANGED <<vm, code, overflow_checks, stdin, output, hist, calls, iter>>

\* the return addresses still on the stack once the stack pointer is sp
Live(cs, sp) == SelectSeq(cs, LAMBDA e : e.depth <= sp)

\* one iteration of run's loop on an instruction whose opcode is in ops:
\* fetch, exec_inst, ip += 1, and the test of is_halted that follows
Step(ops) ==
    /\ pc = "running"
    /\ vm.ip < Len(code)
    /\ LET inst == code[vm.ip + 1]
           r == loop_body(vm, inst, stdin)
       IN /\ inst.op \in ops
          /\ vm' = r.vm
          /\ panic' = r.panic
          /\ pc' = IF r.panic # "none" THEN "panicked"
                   ELSE IF r.vm.is_halted THEN "done" ELSE "running"
          /\ stdin' = SubSeq(stdin, r.nread + 1, Len(stdin))
          /\ output' = output \o r.out
          /\ hist' = LET e == [inst |-> inst, vm |-> vm, nread |-> r.nread, calls |-> calls,
                              stdin |-> stdin, output |-> output]
                     IN IF hist = <<>> THEN <<e>> ELSE <<hist[Len(hist)], e>>
          /\ calls' = IF inst.op = "Call" /\ r.vm.sp = vm.sp + 1
                      THEN Append(Live(calls, vm.sp),
                                  [call |-> vm.ip, ret |-> vm.ip + 1, depth |-> r.vm.sp])
                      ELSE Live(calls, r.vm.sp)
          /\ iter' = 1 - iter
    /\ UNCHANGED <<code, overflow_checks>>

StepPush == Step({"PushI", "PushR"})
StepPop == Step({"Pop"})
StepBinOp == Step(BinOps)
StepInp == Step({"Inp"})
StepCmp == Step(CmpOps)
StepJmp == Step({"Jmp", "JmpRel"})
StepCall == Step({"Call"})
StepRet == Step({"Ret"})
StepPrint == Step({"Print"})
StepHalt == Step({"Halt"})

Next ==
    \/ Run
    \/ FetchFault
    \/ StepPush
    \/ StepPop
    \/ StepBinOp
    \/ StepInp
    \/ StepCmp
    \/ StepJmp
    \/ StepCall
    \/ StepRet
    \/ StepPrint
    \/ StepHalt

Spec == Init /\ [][Next]_vars

\* The runs whose termination is studied: the programs of one instruction, the
\* call chains, the two scenario programs, the empty program, and every
\* instruction after a load of 2 and 0.  The process is single-threaded and
\* nothing suspends it but a blocking read, which the input stream always
\* answers (with a byte or with its end): the loop runs while it can.
LivePrograms ==
    {<<>>, DivZeroProg, SubProg} \cup SingleProgs \cup CallProgs
    \cup {Loaded(2, 0, i) : i \in AllInst(0 .. 8)}
LiveInit == InitWith(LivePrograms)
LiveSpec == LiveInit /\ [][Next]_vars /\ WF_vars(Next)

----------------------------------------------------------------------------
\* The vocabulary of the properties.

\* the last loop iteration that executed an instruction
Last == hist[Len(hist)]
\* the last iteration executed an instruction with an opcode in ops
Acted(ops) == hist # <<>> /\ Last.inst.op \in ops
\* terminal states: run returned with is_halted set, or the process panicked
Halted == pc = "done"
Faulted == pc = "panicked"
\* every field of the machine but ip is as it was before the last instruction
SameButIP(m, n) == [m EXCEPT !.ip = 0] = [n EXCEPT !.ip = 0]

----------------------------------------------------------------------------
\* C1 -- Call/Ret pairing: when a Ret executes with the stack at the depth the
\* innermost pending Call (at address p) left it, the next instruction executed
\* is the one at p + 1.
C1_CallRetPairing ==
    (/\ Acted({"Ret"})
     /\ ~Faulted
     /\ Last.calls # <<>>
     /\ Last.calls[Len(Last.calls)].depth = Last.vm.sp)
    => vm.ip = Last.calls[Len(Last.calls)].call + 1

\* What the code does instead: it resumes at p + 2, one past the return address.
C1_RetResumesOnePast ==
    (/\ Acted({"Ret"})
     /\ ~Faulted
     /\ Last.calls # <<>>
     /\ Last.calls[Len(Last.calls)].depth = Last.vm.sp)
    => vm.ip = Last.calls[Len(Last.calls)].call + 2

\* C2 -- Skip-if-false comparisons: a comparison at p with instructions at p+1
\* and p+2 never faults, leaves ip at p+1 when its relation holds and at p+2 when
\* it does not, and changes nothing but ip.
C2_SkipIfFalse ==
    (Acted(CmpOps) /\ Last.vm.ip + 2 < Len(code))
    => LET x == get_reg(Last.vm, Last.inst.l)
           y == get_reg(Last.vm, Last.inst.r)
           holds == CASE Last.inst.op = "Eq" -> x = y
                      [] Last.inst.op = "Gt" -> x > y
                      [] Last.inst.op = "Lt" -> x < y
       IN /\ pc = "running"
          /\ vm.ip = Last.vm.ip + (IF holds THEN 1 ELSE 2)
          /\ SameButIP(vm, Last.vm)

C2_Witness ==
    /\ Acted({"Gt"})
    /\ Last.inst.l = "SP" /\ Last.inst.r = "C"
    /\ Last.vm.sp <= Last.vm.c
    /\ pc = "running"
    /\ vm.ip = Last.vm.ip + 2
    /\ vm.ip < Len(code)
    /\ code[vm.ip + 1] = Xor("D", "B")

\* C3 -- Jump targets are exact: Jmp(addr) with addr in [0, N) leaves ip at addr,
\* JmpRel(off) at p with p + off in [0, N) leaves ip at p + off, neither faults.
C3_JumpTargetsExact ==
    /\ (Acted({"Jmp"}) /\ Last.inst.imm < Len(code))
       => (~Faulted /\ vm.ip = Last.inst.imm)
    /\ (Acted({"JmpRel"}) /\ Last.vm.ip + Last.inst.imm < Len(code))
       => (~Faulted /\ vm.ip = Last.vm.ip + Last.inst.imm)

\* What the code does: the targets are exact in a build whose arithmetic wraps,
\* and in a build with overflow checks for every target but addr = 0, off = 0.
C3_ExactUnlessZeroChecked ==
    /\ (Acted({"Jmp"}) /\ Last.inst.imm < Len(code))
       => IF overflow_checks /\ Last.inst.imm = 0
          THEN Faulted /\ panic = "attempt to subtract with overflow"
          ELSE ~Faulted /\ vm.ip = Last.inst.imm
    /\ (Acted({"JmpRel"}) /\ Last.vm.ip + Last.inst.imm < Len(code))
       => IF overflow_checks /\ Last.inst.imm = 0
          THEN Faulted /\ panic = "attempt to subtract with overflow"
          ELSE ~Faulted /\ vm.ip = Last.vm.ip + Last.inst.imm

\* C4 -- Stack bounds are faults: a push at sp = 255 and a pop at sp = 0 end the
\* run in a panic; an instruction that went through wrote or read a slot in
\* 0..254 only.
C4_StackBoundsFault ==
    /\ DOMAIN vm.stack = 0 .. StackCap - 1
    /\ (Acted({"PushI", "PushR", "Call"}) /\ Last.vm.sp = StackCap)
       => (Faulted /\ panic = StackIndexPanic /\ vm = Last.vm)
    /\ (Acted({"Pop", "Ret"}) /\ Last.vm.sp = 0)
       => (Faulted /\ panic \in {StackIndexPanic, "attempt to subtract with overflow"})
    /\ (Acted({"PushI", "PushR", "Call"}) /\ panic \notin {StackIndexPanic})
       => Last.vm.sp \in 0 .. StackCap - 1
    /\ (Acted({"Pop", "Ret"}) /\ ~Faulted)
       => Last.vm.sp - 1 \in 0 .. StackCap - 1

C4_Witness ==
    /\ Acted({"Ret"})
    /\ Last.vm.sp = 0
    /\ ~overflow_checks
    /\ Faulted
    /\ vm.sp = WordMax

\* C5 -- Division by zero is a fault, not a halt: Div(l, r) with get(r) = 0
\* panics, with is_halted false and the machine as it was before the
\* instruction; nothing runs after it; [PushI(0), Pop(B), Div(A,B), Halt]
\* ends in that panic at address 2.
C5_DivByZeroFaults ==
    /\ (Acted({"Div"}) /\ get_reg(Last.vm, Last.inst.r) = 0)
       => /\ Faulted
          /\ panic = "attempt to divide by zero"
          /\ ~vm.is_halted
          /\ vm = Last.vm
    /\ Faulted => ~ENABLED Next
    /\ (code = DivZeroProg /\ pc \in {"done", "panicked"})
       => (Faulted /\ ~vm.is_halted /\ vm.ip = 2 /\ Last.inst = Div("A", "B"))

C5_Witness == code = DivZeroProg /\ Faulted /\ Acted({"Div"})

\* C6 -- Invalid fetch address is a fault: with ip outside [0, N) the loop's
\* fetch panics on the index, and the step executes no instruction: machine,
\* input, output and the record of executed instructions stay as they were.
C6_InvalidFetchFaults ==
    [][(pc = "running" /\ vm.ip >= Len(code))
       => /\ pc' = "panicked"
          /\ panic' = CodeIndexPanic
          /\ vm' = vm /\ hist' = hist /\ stdin' = stdin /\ output' = output]_vars

C6_Witness ==
    /\ Faulted
    /\ panic = CodeIndexPanic
    /\ code # <<>>
    /\ vm.ip = Len(code)
    /\ Acted({"Or"})

\* the same fault on the empty program: the first fetch panics
C6_EmptyProgramFaults == (code = <<>> /\ pc \notin {"new", "running"}) => (Faulted /\ hist = <<>>)

\* C7 -- Stack-pointer invariant, as claimed: 0 <= SP <= 255 in every state
\* that is not a fault state.
C7_SPInRange == ~Faulted => vm.sp \in 0 .. StackCap

\* the instructions that hand SP to set_reg
WritesSP(inst) == inst.op \in BinOps \cup {"Pop", "Inp"} /\ inst.l = "SP"

\* C7, amended -- SP is 0 in the constructed machine, and a step that does not
\* name SP as its destination and does not fault keeps SP within 0..255.
C7_SPInRangeUnlessWritten ==
    /\ hist = <<>> => vm.sp = 0
    /\ (hist # <<>> /\ ~WritesSP(Last.inst) /\ Last.vm.sp \in 0 .. StackCap /\ ~Faulted)
       => vm.sp \in 0 .. StackCap

C7_Witness ==
    /\ Acted({"PushI"})
    /\ Last.vm.sp = StackCap - 1
    /\ ~Faulted
    /\ vm.sp = StackCap

\* C8 -- run() always reaches a terminal state, as claimed.
Terminal == pc \in {"done", "panicked"}
C8_RunTerminates == <>Terminal

\* the last instruction left ip where it was or moved it back
WentBack == hist # <<>> /\ ~Faulted /\ vm.ip <= Last.vm.ip

\* C8, amended -- a run in which every step moves ip forward reaches a terminal
\* state: every run is Halted or Faulted in the end, or takes a step that does
\* not move ip forward.
C8_TerminatesUnlessBackward == <>(Terminal \/ WentBack)

C8_Witness ==
    /\ Halted
    /\ code = SubProg
    /\ output = <<2>>

\* the result of a binary operation on words x and y, stated on its own: sums,
\* differences and products modulo 2^WordBits, the bitwise operations bit by
\* bit, a shift by the amount modulo WordBits
IsResult(op, x, y, z) ==
    CASE op = "Add" -> z = (x + y) % WordMod
      [] op = "Sub" -> z \in 0 .. WordMax /\ (z + y) % WordMod = x
      [] op = "Mul" -> z = (x * y) % WordMod
      [] op = "Xor" -> z \in 0 .. WordMax /\ \A i \in 0 .. WordBits - 1 : Bit(z, i) = (IF Bit(x, i) # Bit(y, i) THEN 1 ELSE 0)
      [] op = "And" -> z \in 0 .. WordMax /\ \A i \in 0 .. WordBits - 1 : Bit(z, i) = (IF Bit(x, i) = 1 /\ Bit(y, i) = 1 THEN 1 ELSE 0)
      [] op = "Or" -> z \in 0 .. WordMax /\ \A i \in 0 .. WordBits - 1 : Bit(z, i) = (IF Bit(x, i) = 1 \/ Bit(y, i) = 1 THEN 1 ELSE 0)
      [] op = "Shl" -> z = (x * 2 ^ (y % WordBits)) % WordMod
      [] op = "Shr" -> z = x \div 2 ^ (y % WordBits)

FrameOps == BinOps \ {"Div"}

\* C9 -- Binary-operation frame, as claimed: for all l and r, Op(l, r) without
\* fault sets get(l) to the result, leaves get(r) as it was, and changes no
\* register but l and IP and no stack slot.
C9_BinOpFrame ==
    (Acted(FrameOps) /\ ~Faulted)
    => LET l == Last.inst.l
           r == Last.inst.r
       IN /\ IsResult(Last.inst.op, get_reg(Last.vm, l), get_reg(Last.vm, r), get_reg(vm, l))
          /\ get_reg(vm, r) = get_reg(Last.vm, r)
          /\ \A q \in VMReg \ {l, "IP"} : get_reg(vm, q) = get_reg(Last.vm, q)
          /\ vm.stack = Last.vm.stack

\* C9, amended -- Op(l, r) without fault computes the result from the old
\* get(l) and get(r) and stores it in l; the register l holds it after the
\* step unless l is IP, which holds the result plus one; r keeps its value
\* unless it is l or IP; ip is one more than before unless l is IP; no other
\* register, no stack slot and not the halt flag changes.
C9_BinOpFrameDistinct ==
    (Acted(FrameOps) /\ ~Faulted)
    => LET l == Last.inst.l
           r == Last.inst.r
           x == get_reg(Last.vm, l)
           y == get_reg(Last.vm, r)
       IN /\ l # "IP" => IsResult(Last.inst.op, x, y, get_reg(vm, l))
          /\ l # "IP" => vm.ip = Last.vm.ip + 1
          /\ l = "IP" => IsResult(Last.inst.op, x, y, (vm.ip + WordMod - 1) % WordMod)
          /\ r \notin {l, "IP"} => get_reg(vm, r) = y
          /\ \A q \in VMReg \ {l, "IP"} : get_reg(vm, q) = get_reg(Last.vm, q)
          /\ vm.stack = Last.vm.stack
          /\ vm.is_halted = Last.vm.is_halted

C9_Witness ==
    /\ Acted({"Sub"})
    /\ ~Faulted
    /\ Last.inst.l = "A" /\ Last.inst.r = "SP"
    /\ Last.vm.a = 2 /\ Last.vm.sp = StackCap
    /\ vm.a = WordMod + 2 - StackCap
    /\ vm.sp = StackCap

\* the pair PushI(v); Pop(r) was executed, PushI at p and Pop at p + 1, from a
\* state with SP < 255
PairActed ==
    /\ Len(hist) = 2
    /\ hist[1].inst.op = "PushI"
    /\ hist[2].inst.op = "Pop"
    /\ hist[2].vm.ip = hist[1].vm.ip + 1
    /\ hist[1].vm.sp < StackCap

\* C10 -- Push/pop round trip, as claimed: for every register r, PushI(v);
\* Pop(r) leaves get(r) = v, SP as before the pair, and the slots below it
\* unchanged.
C10_PushPopRoundTrip ==
    PairActed
    => /\ ~Faulted
       /\ get_reg(vm, hist[2].inst.l) = hist[1].inst.imm
       /\ vm.sp = hist[1].vm.sp
       /\ \A i \in 0 .. hist[1].vm.sp - 1 : vm.stack[i] = hist[1].vm.stack[i]

\* C10, amended -- for a general-purpose register r (A, B, C, D) the pair does
\* not fault and leaves get(r) = v, SP as before the pair and the slots below
\* it unchanged; Pop(SP) leaves SP = v; Pop(IP), when the step does not fault,
\* leaves IP = v + 1 (modulo 2^WordBits) and SP as before the pair.
C10_PushPopRoundTripGP ==
    PairActed
    => LET r == hist[2].inst.l
           v == hist[1].inst.imm
           before == hist[1].vm
       IN /\ \A i \in 0 .. before.sp - 1 : vm.stack[i] = before.stack[i]
          /\ r \in GP => /\ ~Faulted
                         /\ get_reg(vm, r) = v
                         /\ vm.sp = before.sp
                         /\ vm.ip = before.ip + 2
          /\ r = "SP" => ~Faulted /\ vm.sp = v
          /\ (r = "IP" /\ ~Faulted) => vm.ip = (v + 1) % WordMod /\ vm.sp = before.sp

C10_Witness ==
    /\ PairActed
    /\ hist[2].inst.l = "B"
    /\ hist[1].inst.imm = WordMax
    /\ hist[1].vm.sp = StackCap - 1
    /\ vm.b = WordMax
    /\ vm.sp = StackCap - 1

\* the last instruction executed panicked (the fetch is the one panic that
\* belongs to no instruction)
StepFaulted == Faulted /\ panic # CodeIndexPanic

OverflowPanics ==
    {"attempt to add with overflow", "attempt to subtract with overflow",
     "attempt to multiply with overflow"}

\* C11 -- Overflow wraps and never faults: Add, Sub and Mul store the result
\* modulo 2^WordBits in the left register and the run goes on with the next
\* instruction; no overflow or underflow of an addition, subtraction or
\* multiplication ever ends the run.
C11_OverflowWraps ==
    /\ (Acted({"Add", "Sub", "Mul"}) /\ Last.inst.l # "IP")
       => /\ ~StepFaulted
          /\ IsResult(Last.inst.op, get_reg(Last.vm, Last.inst.l),
                      get_reg(Last.vm, Last.inst.r), get_reg(vm, Last.inst.l))
          /\ vm.ip = Last.vm.ip + 1
    /\ Acted({"Add", "Sub", "Mul"}) => panic \notin OverflowPanics

\* What the code does: it wraps in a build without overflow checks.
C11_WrapsWithoutChecks == ~overflow_checks => C11_OverflowWraps

\* C12 -- Out-of-range shifts are faults: Shl(l, r) and Shr(l, r) with get(r)
\* at least the word's width end the run in a fault state with the machine as
\* it was before the instruction.
C12_OversizeShiftFaults ==
    (Acted({"Shl", "Shr"}) /\ get_reg(Last.vm, Last.inst.r) >= WordBits)
    => (StepFaulted /\ vm = Last.vm)

\* What the code does: it faults in a build with overflow checks, and without
\* them it stores the shift by the amount modulo the width.
C12_FaultsOnlyWithChecks ==
    (Acted({"Shl", "Shr"}) /\ get_reg(Last.vm, Last.inst.r) >= WordBits)
    => IF overflow_checks
       THEN StepFaulted /\ vm = Last.vm
               /\ panic \in {"attempt to shift left with overflow",
                             "attempt to shift right with overflow"}
       ELSE LET l == Last.inst.l
                z == IF l = "IP" THEN (vm.ip + WordMod - 1) % WordMod ELSE get_reg(vm, l)
            IN StepFaulted
               \/ IsResult(Last.inst.op, get_reg(Last.vm, l), get_reg(Last.vm, Last.inst.r), z)


\* the bytes of a stream that are carriage returns before its first other byte
RECURSIVE LeadingCRs(_)
LeadingCRs(in) ==
    IF in = <<>> \/ Head(in) # CR THEN 0 ELSE 1 + LeadingCRs(Tail(in))

\* the stream holds a byte other than a carriage return
HasByte(in) == LeadingCRs(in) < Len(in)
\* that byte
FirstByte(in) == in[LeadingCRs(in) + 1]

\* C13 -- Inp skips carriage returns, as claimed: on a stream of k carriage
\* returns and then a byte b, Inp(r) consumes exactly those k + 1 bytes and
\* sets get(r) = b; no register holds 0x0D because of an Inp; only r and IP
\* change and the stack does not.
C13_InpSkipsCR ==
    (Acted({"Inp"}) /\ HasByte(Last.stdin))
    => LET r == Last.inst.l
           k == LeadingCRs(Last.stdin)
       IN /\ ~StepFaulted
          /\ Last.nread = k + 1
          /\ stdin = SubSeq(Last.stdin, k + 2, Len(Last.stdin))
          /\ get_reg(vm, r) = FirstByte(Last.stdin)
          /\ get_reg(vm, r) # CR
          /\ \A q \in VMReg \ {r, "IP"} : get_reg(vm, q) = get_reg(Last.vm, q)
          /\ vm.stack = Last.vm.stack

\* C13 as the code has it: the same for every register but IP, and IP moves to
\* the next address; Inp(IP) writes b to IP and the loop's increment follows,
\* so that IP reads b + 1 (0x0D when b is 0x0C).
C13_InpSkipsCRUnlessIP ==
    (Acted({"Inp"}) /\ HasByte(Last.stdin))
    => LET r == Last.inst.l
           k == LeadingCRs(Last.stdin)
           b == FirstByte(Last.stdin)
       IN /\ ~StepFaulted
          /\ Last.nread = k + 1
          /\ stdin = SubSeq(Last.stdin, k + 2, Len(Last.stdin))
          /\ b # CR
          /\ IF r = "IP"
             THEN vm = [Last.vm EXCEPT !.ip = b + 1]
             ELSE vm = [set_reg(Last.vm, r, b) EXCEPT !.ip = Last.vm.ip + 1]

C13_Witness ==
    /\ Acted({"Inp"})
    /\ Last.inst.l = "B"
    /\ Last.stdin = <<CR, CR, 10, 66>>
    /\ stdin = <<66>>
    /\ vm.b = 10

\* Inp(IP) on the byte 0x0C leaves 0x0D in IP
C13_IPReadsCR ==
    /\ Acted({"Inp"})
    /\ Last.inst.l = "IP"
    /\ Last.stdin = <<CR - 1>>
    /\ vm.ip = CR

\* C14 -- Input exhaustion is a fault: Inp(r) on a stream with no byte left, at
\* once or after carriage returns alone, ends the run in a fault with the halt
\* flag false and the machine, get(r) included, as it was; no instruction
\* executes afterwards.
C14_InputExhaustedFaults ==
    (Acted({"Inp"}) /\ ~HasByte(Last.stdin))
    => /\ Faulted
       /\ panic = UnwrapPanic
       /\ vm = Last.vm
       /\ ~vm.is_halted
       /\ Last.nread = Len(Last.stdin)
       /\ ~ENABLED Next

C14_Witness ==
    /\ Acted({"Inp"})
    /\ Last.stdin = <<CR>>
    /\ Last.nread = 1
    /\ Last.inst.l \in {"A", "SP"}
    /\ Faulted
    /\ stdin = <<>>


\* the last instruction raised one of the faults of the instruction set: a
\* stack fault on a push or a pop, a division by zero, an oversize shift, the
\* end of the input
InstructionFault ==
    /\ hist # <<>>
    /\ Faulted
    /\ \/ panic \in {StackIndexPanic, "attempt to divide by zero", UnwrapPanic,
                     "attempt to shift left with overflow",
                     "attempt to shift right with overflow"}
       \/ Last.inst.op \in {"Pop", "Ret"} /\ panic = "attempt to subtract with overflow"

\* C15 -- State is preserved at a fault: in the fault state of an instruction
\* A, B, C, D, SP and the stack are as they were when the instruction began;
\* Pop and Ret at SP = 0 do not leave SP decremented and Call at SP = StackCap
\* does not change IP.
C15_StatePreservedAtFault ==
    InstructionFault
    => /\ SameButIP(vm, Last.vm)
       /\ Last.inst.op = "Call" => vm.ip = Last.vm.ip

\* What the code does: Pop and Ret decrement SP before they index the stack,
\* so that a fault of the index leaves SP one less (modulo 2^WordBits) than it
\* was; everything else is as claimed.
C15_PreservedButPoppedSP ==
    InstructionFault
    => IF Last.inst.op \in {"Pop", "Ret"} /\ panic = StackIndexPanic
       THEN vm = [Last.vm EXCEPT !.sp = (Last.vm.sp + WordMod - 1) % WordMod]
       ELSE vm = Last.vm

\* Pop at SP = 0 without overflow checks: the fault state has SP = WordMax
C15_PopLeavesSPDecremented ==
    /\ Acted({"Pop"})
    /\ Last.vm.sp = 0
    /\ Faulted
    /\ vm.sp = WordMax


\* C16 -- End-to-end subtraction scenario: SubProg pops B = 3 then A = 5, Sub
\* leaves A = 2, the output is the one character with code 2, and the run ends
\* Halted, without a fault, with SP = 0.
C16_SubScenario ==
    code = SubProg
    => /\ ~Faulted
       /\ (Acted({"Pop"}) /\ Last.inst.l = "B") => vm.b = 3
       /\ (Acted({"Pop"}) /\ Last.inst.l = "A") => (vm.a = 5 /\ vm.b = 3)
       /\ Acted({"Sub"}) => (Last.vm.a = 5 /\ Last.vm.b = 3 /\ vm.a = 2)
       /\ output \in {<<>>, <<2>>}
       /\ output = <<2>> <=> (Acted({"Print", "Halt"}) /\ Last.vm.a = 2)
       /\ Halted => (vm.a = 2 /\ vm.b = 3 /\ vm.sp = 0 /\ output = <<2>>)
       /\ ~Halted => ENABLED Next

C16_Witness ==
    /\ code = SubProg
    /\ Halted
    /\ Acted({"Halt"})
    /\ vm.a = 2
    /\ vm.sp = 0
    /\ output = <<2>>


\* C17 -- Halt stops the machine at once: the step that executes Halt at
\* address p sets the halt flag, nothing is fetched or executed afterwards, and
\* the machine is Halted with IP = p and A, B, C, D, SP and the stack as they
\* were.
C17_HaltStopsAtOnce ==
    Acted({"Halt"})
    => /\ Halted
       /\ ~ENABLED Next
       /\ vm = [Last.vm EXCEPT !.is_halted = TRUE]

\* What the code does: the loop's ip += 1 follows exec_inst whatever the
\* instruction was, so the Halted machine has IP = p + 1; the rest is as
\* claimed.
C17_HaltThenIncrement ==
    Acted({"Halt"})
    => /\ Halted
       /\ ~ENABLED Next
       /\ vm = [Last.vm EXCEPT !.is_halted = TRUE, !.ip = @ + 1]

\* a Halt at address 0 has run
C17_HaltedPastHalt ==
    /\ code = <<Halt>>
    /\ Halted
    /\ vm.ip = 1


\* every register and every stack slot of m is 0
AllZero(m) ==
    /\ \A q \in VMReg : get_reg(m, q) = 0
    /\ \A i \in 0 .. StackCap - 1 : m.stack[i] = 0

\* C18 -- The halt flag is true only as the result of a Halt: the constructed
\* machine has the halt flag false, IP = 0 and every register and stack slot 0,
\* and in every state the halt flag is true exactly when a Halt has been
\* executed.
C18_HaltFlagOnlyByHalt ==
    /\ pc = "new" => (~vm.is_halted /\ AllZero(vm))
    /\ vm.is_halted <=> Acted({"Halt"})

\* C18 as the code has it: the constructed machine has the halt flag true, run
\* clears it, and from then on it is true exactly when a Halt has been executed.
C18_HaltFlagOnlyByHaltOnceRun ==
    /\ pc = "new" => (vm.is_halted /\ AllZero(vm) /\ hist = <<>>)
    /\ pc # "new" => (vm.is_halted <=> Acted({"Halt"}))
    /\ Halted <=> Acted({"Halt"})

C18_Witness ==
    /\ Halted
    /\ vm.is_halted
    /\ Len(hist) = 2
    /\ hist[1].inst.op # "Halt"
    /\ ~hist[1].vm.is_halted
    /\ Last.inst.op = "Halt"
    /\ ~Last.vm.is_halted


\* the result of a binary operation, the quotient included
BinResult(op, x, y, z) ==
    IF op = "Div" THEN y # 0 /\ z = x \div y ELSE IsResult(op, x, y, z)

\* the last instruction wrote a value to IP: a Pop(IP) with a slot to pop, or a
\* binary operation on IP that computed a result
WroteIP ==
    \/ Acted({"Pop"}) /\ Last.inst.l = "IP" /\ Last.vm.sp \in 1 .. StackCap
    \/ /\ Acted(BinOps) /\ Last.inst.l = "IP"
       /\ binop(Last.inst.op, Last.vm.ip, get_reg(Last.vm, Last.inst.r)).panic = "none"

\* what is read when the last instruction, at address p, names IP as a source
ReadsIPAs(p) ==
    /\ (Acted({"PushR"}) /\ Last.inst.l = "IP" /\ ~StepFaulted)
       => (vm.stack[Last.vm.sp] = p /\ vm.sp = Last.vm.sp + 1)
    /\ (Acted(BinOps) /\ Last.inst.r = "IP" /\ Last.inst.l # "IP" /\ ~StepFaulted)
       => BinResult(Last.inst.op, get_reg(Last.vm, Last.inst.l), p, get_reg(vm, Last.inst.l))
    /\ (Acted(CmpOps) /\ Last.inst.r = "IP" /\ ~StepFaulted)
       => vm.ip = Last.vm.ip + (IF relation(Last.inst.op, get_reg(Last.vm, Last.inst.l), p)
                                THEN 1 ELSE 2)
    /\ (Acted({"Print"}) /\ Last.inst.l = "IP")
       => output = Last.output \o <<p % 256>>

\* the value the last instruction wrote to IP is v
WroteIPValue(v) ==
    IF Last.inst.op = "Pop" THEN v = Last.vm.stack[Last.vm.sp - 1]
    ELSE BinResult(Last.inst.op, Last.vm.ip, get_reg(Last.vm, Last.inst.r), v)

\* C19 -- IP read as an operand is the address of the executing instruction:
\* PushR(IP), a binary operation or comparison with right operand IP, and
\* Print(IP), at address p, read exactly p; an instruction that writes v to IP
\* is followed by the fetch at v + 1 (modulo 2^WordBits).
C19_IPOperand ==
    hist # <<>>
    => /\ ReadsIPAs(Last.vm.ip)
       /\ WroteIP
          => \E v \in 0 .. WordMax :
                /\ WroteIPValue(v)
                /\ ~StepFaulted
                /\ vm.ip = (v + 1) % WordMod

\* What the code does: the same, except that with overflow checks writing the
\* largest word to IP makes the loop's ip += 1 panic.
C19_IPOperandUnlessTopWord ==
    hist # <<>>
    => /\ ReadsIPAs(Last.vm.ip)
       /\ WroteIP
          => \E v \in 0 .. WordMax :
                /\ WroteIPValue(v)
                /\ IF v = WordMax /\ overflow_checks
                   THEN Faulted /\ panic = "attempt to add with overflow" /\ vm.ip = v
                   ELSE ~StepFaulted /\ vm.ip = (v + 1) % WordMod

\* IP was read as an operand at address 4 and was not 0
C19_ReadIPAtFour ==
    /\ Acted({"Add"})
    /\ Last.inst.r = "IP"
    /\ Last.inst.l = "A"
    /\ Last.vm.ip = 4
    /\ vm.a = Last.vm.a + 4


\* addresses of MainProg: the check that falls into the "Lose" printer, the
\* printer's first instruction and its Halt, the "Win" printer and its Halt
FirstCheck == 18
LoseAt == 20
LoseHalt == 32
WinAt == 202
WinHalt == 211

LoseText == <<76, 111, 115, 101>>
WinText == <<87, 105, 110>>

\* the checks of MainProg that are followed by JmpRel(2) and Jmp(LoseAt)
Checks ==
    {p \in 0 .. Len(MainProg) - 3 :
        /\ MainProg[p + 1].op = "Eq"
        /\ MainProg[p + 2] = JmpRel(2)
        /\ MainProg[p + 3] = Jmp(LoseAt)}

\* the comparison of history entry e found its operands different
CheckFailed(e) ==
    /\ e.inst.op = "Eq"
    /\ get_reg(e.vm, e.inst.l) # get_reg(e.vm, e.inst.r)

\* what a printer that starts at address from has written once IP is ip: one
\* character for every three instructions
Printed(text, from, ip) == SubSeq(text, 1, (ip - from) \div 3)

\* C20 -- Bundled program verdict: whenever MainProg is Halted its output is
\* exactly "Lose" or exactly "Win"; every failed check transfers control to
\* LoseAt, whose printer runs straight to its Halt at LoseHalt; nothing is
\* written before the verdict; SP never exceeds 3.
C20_BundledVerdict ==
    code = MainProg
    => /\ vm.sp <= 3
       /\ Halted => /\ output \in {LoseText, WinText}
                    /\ output = LoseText <=> Last.vm.ip = LoseHalt
                    /\ output = WinText <=> Last.vm.ip = WinHalt
       /\ (hist # <<>> /\ CheckFailed(Last) /\ Last.vm.ip = FirstCheck)
          => (vm.ip = LoseAt /\ pc = "running")
       /\ (hist # <<>> /\ CheckFailed(Last) /\ Last.vm.ip \in Checks)
          => (vm.ip = Last.vm.ip + 2 /\ pc = "running" /\ code[vm.ip + 1] = Jmp(LoseAt))
       /\ (Acted({"Jmp"}) /\ Last.inst.imm = LoseAt)
          => /\ vm.ip = LoseAt /\ pc = "running"
             /\ Len(hist) = 2 /\ CheckFailed(hist[1]) /\ hist[1].vm.ip \in Checks
       /\ (pc = "running" /\ vm.ip = LoseAt)
          => \/ Acted({"Jmp"}) /\ Last.inst.imm = LoseAt
             \/ CheckFailed(Last) /\ Last.vm.ip = FirstCheck
       /\ (hist # <<>> /\ Last.vm.ip \in LoseAt .. LoseHalt)
          => /\ ~Faulted
             /\ vm.ip = Last.vm.ip + 1
             /\ Halted <=> Last.vm.ip = LoseHalt
       /\ ~Halted
          => output = IF vm.ip \in LoseAt .. LoseHalt
                      THEN Printed(LoseText, LoseAt, vm.ip)
                      ELSE IF vm.ip \in WinAt .. WinHalt
                           THEN Printed(WinText, WinAt, vm.ip)
                           ELSE <<>>

C20_Witness ==
    /\ code = MainProg
    /\ Halted
    /\ output = WinText
    /\ stdin = <<>>
    /\ vm.sp = 1

\* the last check failed and the run ended with "Lose"
C20_LoseAfterLastCheck ==
    /\ code = MainProg
    /\ Halted
    /\ output = LoseText
    /\ stdin = <<>>
    /\ vm.sp = 1

\* the stack of MainProg holds three words
C20_StackOfThree ==
    /\ code = MainProg
    /\ vm.sp = 3
    /\ Acted({"PushI"})

=============================================================================
